---- MODULE Spec2Model ----
(***************************************************************************)
(* A model of FtpServer (src/src/ESP32FtpServer.cpp): the polled FTP       *)
(* session state machine, its command dispatch, the data-channel           *)
(* negotiation and the chunked transfer engine.                            *)
(*                                                                         *)
(* Strings are sequences of one-character strings.  Times are kept         *)
(* relative to millis(): a timestamp variable holds (value - millis()),    *)
(* so "millis() + 200" is 200 and the passing of d milliseconds subtracts  *)
(* d from every timestamp (saturating where only the sign is read).        *)
(***************************************************************************)
EXTENDS Integers, Sequences, FiniteSets, TLC

\* ------------------------------------------------------------------------
\* Program constants (ESP32FtpServer.h)
\* ------------------------------------------------------------------------
FTP_DATA_PORT_PASV == 55600
FTP_TIME_OUT == 5
FTP_CMD_SIZE == 256
FTP_CWD_SIZE == 512
FTP_BUF_SIZE == 512
COMMAND_SIZE == 6

FTP_CMD_IDLE == 0
FTP_CMD_WAIT_CONNECTION == 1
FTP_CMD_READY == 2
FTP_CMD_WAIT_USER == 3
FTP_CMD_WAIT_PASS == 4
FTP_CMD_WAIT_COMMAND == 5

FTP_DATA_PASSIVE == 0
FTP_DATA_ACTIVE == 1

FTP_TRANSFER_IDLE == 0
FTP_TRANSFER_RETR == 1
FTP_TRANSFER_STOR == 2

\* Defaults set by the constructor and the fixed windows of the code.
DefaultMaxAttempts == 3
LoginWindow == 10000
DataAcceptWait == 10000
TimeoutDelay == 200
ShortDelay == 100
LongDelay == 1000
ReadTimeout == 1000
PollDelay == 10

activeTimeout == FTP_TIME_OUT * 60 * 1000
\* The port the static dataServer listens on (line 26).
dataServerPort == FTP_DATA_PORT_PASV
maxAttempts == DefaultMaxAttempts

\* ------------------------------------------------------------------------
\* Bounds of the model
\* ------------------------------------------------------------------------
MaxClients == 2
MaxInitDelay == 1
MaxUpload == 600
SizeF == 5000
SizeG == 0
OtherPort == 2121

\* ------------------------------------------------------------------------
\* C string helpers
\* ------------------------------------------------------------------------
Min(a, b) == IF a < b THEN a ELSE b
Max(a, b) == IF a > b THEN a ELSE b

Take(s, n) == SubSeq(s, 1, Min(n, Len(s)))
Drop(s, n) == SubSeq(s, n + 1, Len(s))

\* strlcpy(dst, src, size): dst holds at most size-1 characters of src.
strlcpy(src, size) == Take(src, size - 1)

\* strlcat(dst, src, size): the concatenation, cut to size-1 characters.
strlcat(dst, src, size) == IF Len(dst) >= size THEN dst ELSE Take(dst \o src, size - 1)

\* strchr(s, c): index of the first c in s, 0 when there is none.
strchr(s, c) ==
  IF \E i \in 1..Len(s) : s[i] = c
  THEN CHOOSE i \in 1..Len(s) : s[i] = c /\ \A j \in 1..(i - 1) : s[j] # c
  ELSE 0

\* strrchr(s, c): index of the last c in s, 0 when there is none.
strrchr(s, c) ==
  IF \E i \in 1..Len(s) : s[i] = c
  THEN CHOOSE i \in 1..Len(s) : s[i] = c /\ \A j \in (i + 1)..Len(s) : s[j] # c
  ELSE 0

\* strstr(s, t) != nullptr
strstr(s, t) ==
  \E i \in 1..(Len(s) - Len(t) + 1) : SubSeq(s, i, i + Len(t) - 1) = t

LowerCase ==
  <<"a","b","c","d","e","f","g","h","i","j","k","l","m",
    "n","o","p","q","r","s","t","u","v","w","x","y","z">>
UpperCase ==
  <<"A","B","C","D","E","F","G","H","I","J","K","L","M",
    "N","O","P","Q","R","S","T","U","V","W","X","Y","Z">>

toupper(c) ==
  IF \E i \in 1..26 : LowerCase[i] = c
  THEN UpperCase[CHOOSE i \in 1..26 : LowerCase[i] = c]
  ELSE c

Digits == <<"0","1","2","3","4","5","6","7","8","9">>
IsDigit(c) == \E i \in 1..10 : Digits[i] = c
DigitVal(c) == (CHOOSE i \in 1..10 : Digits[i] = c) - 1

\* atoi on an unsigned decimal prefix; 0 when the token starts with no digit.
RECURSIVE AtoiFrom(_, _)
AtoiFrom(s, acc) ==
  IF s = <<>> \/ ~IsDigit(Head(s)) THEN acc
  ELSE AtoiFrom(Tail(s), acc * 10 + DigitVal(Head(s)))
atoi(s) == AtoiFrom(s, 0)

\* The non-empty fields of s between delimiters d, in order.
RECURSIVE Tokens(_, _, _)
Tokens(s, d, cur) ==
  IF s = <<>> THEN (IF cur = <<>> THEN <<>> ELSE <<cur>>)
  ELSE IF Head(s) = d
       THEN (IF cur = <<>> THEN <<>> ELSE <<cur>>) \o Tokens(Tail(s), d, <<>>)
       ELSE Tokens(Tail(s), d, Append(cur, Head(s)))

\* The successive results of strtok(s, ",") then strtok(NULL, ",").
strtok(s) == Tokens(s, ",", <<>>)

CR == "CR"
LF == "LF"
SP == " "
Root == <<"/">>

\* ------------------------------------------------------------------------
\* State
\* ------------------------------------------------------------------------
VARIABLES
  client,              \* _client: [id, connected]; id 0 is "no connection yet"
  data,                \* _data: [connected]
  cmdStatus,           \* _cmdStatus
  currentAttempts,     \* _currentAttempts
  dataIp,              \* _dataIp
  dataPort,            \* _dataPort
  dataConnType,        \* _dataConnType
  passivePort,         \* _passivePort
  file,                \* _file: [open, path, write, pos, size]
  transferStatus,      \* _transferStatus
  bytesTransferred,    \* _bytesTransferred
  millisBeginTransfer, \* _millisBeginTransfer - millis(), floored at -1
  cwd,                 \* _cwd
  renameFrom,          \* _renameFrom
  rnfrCmd,             \* _rnfrCmd
  cmdLine,             \* _cmdLine[0 .. _cmdBufferIndex-1]
  cmdBufferIndex,      \* _cmdBufferIndex
  millisDelay,         \* _millisDelay - millis(), floored at 0
  millisEndConnection, \* _millisEndConnection - millis(), floored at -1
  hasClient,           \* ftpServer: id of the pending control connection, 0 if none
  dataHasClient,       \* dataServer.hasClient()
  rx,                  \* bytes the control peer has sent and the server has not read
  dataRx,              \* bytes the data peer has sent and the server has not read
  fs,                  \* LittleFS: path -> [dir, size]
  nextId,              \* next fresh control-connection id
  ev,                  \* what the last step did, if it was a handleFTP call (observation)
  authed,              \* per connection id: "none", "user" (USER ok), "ok" (PASS ok)
  greeted,             \* connection ids the 220 greeting was sent to (observation)
  served,              \* connection ids a byte has been read from (observation)
  begun,               \* begin() has run: the listeners are open
  xfer                 \* bookkeeping of the transfer in progress (observation)

vars ==
  <<client, data, cmdStatus, currentAttempts, dataIp, dataPort, dataConnType,
    passivePort, file,
    transferStatus, bytesTransferred, millisBeginTransfer, cwd, renameFrom, rnfrCmd,
    cmdLine, cmdBufferIndex, millisDelay, millisEndConnection, hasClient,
    dataHasClient, rx, dataRx, fs, nextId, ev, authed, greeted, served, begun, xfer>>

\* The state as one record, for the operators that model the methods.
Cur ==
  [client |-> client, data |-> data, cmdStatus |-> cmdStatus,
   currentAttempts |-> currentAttempts, dataIp |-> dataIp, dataPort |-> dataPort,
   dataConnType |-> dataConnType, passivePort |-> passivePort, file |-> file, transferStatus |-> transferStatus,
   bytesTransferred |-> bytesTransferred, millisBeginTransfer |-> millisBeginTransfer,
   cwd |-> cwd, renameFrom |-> renameFrom, rnfrCmd |-> rnfrCmd, cmdLine |-> cmdLine,
   cmdBufferIndex |-> cmdBufferIndex, millisDelay |-> millisDelay,
   millisEndConnection |-> millisEndConnection, hasClient |-> hasClient,
   dataHasClient |-> dataHasClient, rx |-> rx, dataRx |-> dataRx, fs |-> fs,
   nextId |-> nextId, ev |-> ev, authed |-> authed, greeted |-> greeted,
   served |-> served,   begun |-> begun, xfer |-> xfer]

Install(s) ==
  /\ client' = s.client
  /\ data' = s.data
  /\ cmdStatus' = s.cmdStatus
  /\ currentAttempts' = s.currentAttempts
  /\ dataIp' = s.dataIp
  /\ dataPort' = s.dataPort
  /\ dataConnType' = s.dataConnType
  /\ passivePort' = s.passivePort
  /\ file' = s.file
  /\ transferStatus' = s.transferStatus
  /\ bytesTransferred' = s.bytesTransferred
  /\ millisBeginTransfer' = s.millisBeginTransfer
  /\ cwd' = s.cwd
  /\ renameFrom' = s.renameFrom
  /\ rnfrCmd' = s.rnfrCmd
  /\ cmdLine' = s.cmdLine
  /\ cmdBufferIndex' = s.cmdBufferIndex
  /\ millisDelay' = s.millisDelay
  /\ millisEndConnection' = s.millisEndConnection
  /\ hasClient' = s.hasClient
  /\ dataHasClient' = s.dataHasClient
  /\ rx' = s.rx
  /\ dataRx' = s.dataRx
  /\ fs' = s.fs
  /\ nextId' = s.nextId
  /\ ev' = s.ev
  /\ authed' = s.authed
  /\ greeted' = s.greeted
  /\ served' = s.served
  /\ begun' = s.begun
  /\ xfer' = s.xfer

NoFile == [open |-> FALSE, path |-> <<>>, write |-> FALSE, pos |-> 0, size |-> 0]
NoPath == [called |-> FALSE, param |-> <<>>, cwd |-> <<>>, ok |-> FALSE, out |-> <<>>]
NoEvent ==
  [ran |-> FALSE, accepted |-> 0, replaced |-> 0, line |-> FALSE, verb |-> <<>>,
   by |-> 0, state |-> 0, replies |-> <<>>, chunk |-> 0, timedOut |-> FALSE,
   path |-> NoPath, waited |-> 0, arg |-> <<>>, announced |-> <<>>]
NoXfer == [kind |-> FTP_TRANSFER_IDLE, size |-> 0, sent |-> 0, done |-> 0, clean |-> TRUE]

\* ------------------------------------------------------------------------
\* LittleFS, as the code uses it
\* ------------------------------------------------------------------------
Exists(f, p) == p \in DOMAIN f
IsDir(f, p) == p \in DOMAIN f /\ f[p].dir
IsFile(f, p) == p \in DOMAIN f /\ ~f[p].dir
Parent(p) == IF strrchr(p, "/") <= 1 THEN Root ELSE Take(p, strrchr(p, "/") - 1)
Children(f, p) == {q \in DOMAIN f : q # Root /\ Parent(q) = p}
ValidName(p) == Len(p) > 1 /\ p[1] = "/" /\ p[Len(p)] # "/"
CanCreate(f, p) == ValidName(p) /\ ~Exists(f, p) /\ IsDir(f, Parent(p))
\* The path with its empty components (doubled or trailing "/") left out.
RECURSIVE JoinParts(_)
JoinParts(parts) ==
  IF parts = <<>> THEN <<>> ELSE Root \o Head(parts) \o JoinParts(Tail(parts))
Canon(p) ==
  IF Tokens(p, "/", <<>>) = <<>> THEN Root ELSE JoinParts(Tokens(p, "/", <<>>))
\* LittleFS.open(path) + isDirectory().  The code hands the path over as
\* resolved; whether the library finds the directory under a path with an
\* empty component is the library's choice (lenient), not the code's.
OpenDir(f, p, lenient) == IsDir(f, IF lenient THEN Canon(p) ELSE p)
FsPut(f, p, e) == [q \in (DOMAIN f) \cup {p} |-> IF q = p THEN e ELSE f[q]]
FsDel(f, p) == [q \in (DOMAIN f) \ {p} |-> f[q]]

\* ------------------------------------------------------------------------
\* Small steps shared by the methods
\* ------------------------------------------------------------------------
\* _client.println(msg): the line reaches the peer only while connected.
Reply(s, msg) ==
  [s EXCEPT !.ev.replies =
     Append(@, [to |-> IF s.client.connected THEN s.client.id ELSE 0, msg |-> msg])]

\* d milliseconds pass: every stored timestamp moves d closer to (or past) now.
Elapse(s, d) ==
  [s EXCEPT !.millisDelay = Max(@ - d, 0),
            !.millisEndConnection = Max(@ - d, -1),
            !.millisBeginTransfer = Max(@ - d, -1)]

\* Observation: the running transfer lost its file or its data channel; its
\* bookkeeping stops there.
Interrupt(s) ==
  IF s.transferStatus # FTP_TRANSFER_IDLE
  THEN [s EXCEPT !.xfer = [NoXfer EXCEPT !.kind = s.xfer.kind, !.clean = FALSE]]
  ELSE s

\* _data.stop()
StopData(s) == [s EXCEPT !.data = [connected |-> FALSE], !.dataRx = 0]
DataStop(s) == StopData(Interrupt(s))

\* _file.close()
CloseFile(s) == [s EXCEPT !.file = NoFile]

\* delayResponse(ms)
delayResponse(s, ms) == [s EXCEPT !.millisDelay = ms]

\* ------------------------------------------------------------------------
\* Session set-up and tear-down
\* ------------------------------------------------------------------------
abortTransfer(s) ==
  IF s.transferStatus # FTP_TRANSFER_IDLE
  THEN [Reply(StopData(CloseFile(Interrupt(s))), "426 Transfer aborted")
          EXCEPT !.transferStatus = FTP_TRANSFER_IDLE]
  ELSE s

\* Mutation: the attempt counter survives the reset.
initVariables_KeepsAttempts(s) ==
  [s EXCEPT !.dataPort = s.passivePort,
            !.dataConnType = FTP_DATA_PASSIVE,
            !.cwd = Root,
            !.rnfrCmd = FALSE,
            !.transferStatus = FTP_TRANSFER_IDLE]

initVariables(s) ==
  [s EXCEPT !.dataPort = s.passivePort,
            !.dataConnType = FTP_DATA_PASSIVE,
            !.cwd = Root,
            !.rnfrCmd = FALSE,
            !.transferStatus = FTP_TRANSFER_IDLE,
            !.currentAttempts = 0]

clientConnected(s) ==
  [Reply(Reply(s, "220 Welcome to ESP32-S3 FTP Server"), "220 Version")
     EXCEPT !.cmdBufferIndex = 0, !.cmdLine = <<>>]

\* _client.stop()
StopClient(s) == [s EXCEPT !.client.connected = FALSE, !.rx = <<>>]

disconnectClient(s) == StopClient(Reply(abortTransfer(s), "221 Goodbye"))

\* ------------------------------------------------------------------------
\* Authentication
\* ------------------------------------------------------------------------
V_USER == <<"U","S","E","R">>
V_PASS == <<"P","A","S","S">>
username == <<"a">>
password == <<"p">>

\* Returns [s, ok].
authenticateUser(s, command, parameters) ==
  IF command # V_USER
  THEN [s |-> delayResponse(Reply(s, "500 Syntax error"), ShortDelay), ok |-> FALSE]
  ELSE IF parameters # username
  THEN LET s1 == [s EXCEPT !.currentAttempts = (@ + 1) % 256] IN
       IF s1.currentAttempts >= maxAttempts
       THEN [s |-> [delayResponse(Reply(s1, "530 Too many attempts"), LongDelay)
                      EXCEPT !.cmdStatus = FTP_CMD_IDLE],
             ok |-> FALSE]
       ELSE [s |-> delayResponse(Reply(s1, "530 User not found"), ShortDelay),
             ok |-> FALSE]
  ELSE [s |-> Reply(s, "331 Password required"), ok |-> TRUE]

authenticatePassword(s, command, parameters) ==
  IF command # V_PASS
  THEN [s |-> delayResponse(Reply(s, "500 Syntax error"), ShortDelay), ok |-> FALSE]
  ELSE IF parameters # password
  THEN LET s1 == [s EXCEPT !.currentAttempts = (@ + 1) % 256] IN
       IF s1.currentAttempts >= maxAttempts
       THEN [s |-> [delayResponse(Reply(s1, "530 Too many attempts"), LongDelay)
                      EXCEPT !.cmdStatus = FTP_CMD_IDLE],
             ok |-> FALSE]
       ELSE [s |-> delayResponse(Reply(s1, "530 Invalid password"), ShortDelay),
             ok |-> FALSE]
  ELSE [s |-> [Reply(s, "230 Login successful")
                 EXCEPT !.millisEndConnection = activeTimeout,
                        !.currentAttempts = 0],
        ok |-> TRUE]

\* ------------------------------------------------------------------------
\* Path resolution
\* ------------------------------------------------------------------------
DotDotSlash == <<".", ".", "/">>

\* Observation: the last makePath call of the poll, its inputs and its result.
Resolved(s, param, ok, out) ==
  [s EXCEPT !.ev.path = [called |-> TRUE, param |-> param, cwd |-> s.cwd,
                         ok |-> ok, out |-> out]]

\* Returns [s, ok, path]; path is what the call leaves in fullPath.
makePath(s, param) ==
  IF param = Root \/ Len(param) = 0
  THEN [s |-> Resolved(s, param, TRUE, strlcpy(Root, FTP_CWD_SIZE)),
        ok |-> TRUE, path |-> strlcpy(Root, FTP_CWD_SIZE)]
  ELSE
    LET sep(base) == IF base[Len(base)] # "/"
                     THEN strlcat(base, Root, FTP_CWD_SIZE) ELSE base
        joined ==
          IF param[1] # "/"
          THEN strlcat(sep(strlcpy(s.cwd, FTP_CWD_SIZE)), param, FTP_CWD_SIZE)
          ELSE strlcpy(param, FTP_CWD_SIZE)
        strip(path) == IF Len(path) > 1 /\ path[Len(path)] = "/"
                       THEN Take(path, Len(path) - 1) ELSE path
        check(full) ==
          IF strstr(full, DotDotSlash)
          THEN [s |-> Reply(Resolved(s, param, FALSE, full), "550 Invalid path"),
                ok |-> FALSE, path |-> full]
          ELSE [s |-> Resolved(s, param, TRUE, full), ok |-> TRUE, path |-> full]
    IN check(strip(joined))

\* ------------------------------------------------------------------------
\* Data channel
\* ------------------------------------------------------------------------
\* The wait loop of lines 906-910 for d milliseconds (observed in ev.waited).
Wait(s, d) == [Elapse(s, d) EXCEPT !.ev.waited = @ + d]

\* Returns [s, ok].  in.arrive: a data peer connects during the bounded wait;
\* in.connectOk: the outward connect of active mode succeeds.
dataConnect(s, in) ==
  IF s.data.connected THEN [s |-> s, ok |-> TRUE]
  ELSE IF s.dataConnType = FTP_DATA_PASSIVE
  THEN LET waited ==
             IF s.dataHasClient THEN s
             ELSE IF in.arrive THEN [Wait(s, PollDelay) EXCEPT !.dataHasClient = TRUE]
             ELSE Wait(s, DataAcceptWait)
       IN IF waited.dataHasClient
          THEN [s |-> [StopData(waited) EXCEPT !.data = [connected |-> TRUE],
                                               !.dataHasClient = FALSE],
                ok |-> TRUE]
          ELSE [s |-> waited, ok |-> FALSE]
  ELSE IF in.connectOk
       THEN [s |-> [StopData(s) EXCEPT !.data = [connected |-> TRUE]], ok |-> TRUE]
       ELSE [s |-> StopData(s), ok |-> FALSE]

\* ------------------------------------------------------------------------
\* Command handlers
\* ------------------------------------------------------------------------
handleCdupCommand(s) ==
  IF Len(s.cwd) = 0 THEN Reply(s, "550 Current directory not set")
  ELSE LET lastSlash == strrchr(s.cwd, "/") IN
       IF lastSlash # 0 /\ lastSlash # 1
       THEN Reply([s EXCEPT !.cwd = Take(s.cwd, lastSlash - 1)],
                  "250 CDUP command successful")
       ELSE IF lastSlash = 1
       THEN Reply(s, "250 Already at root directory")
       ELSE Reply(s, "250 CDUP command successful")

handleCwdCommand(s, parameters, in) ==
  IF parameters = <<".">> THEN Reply(s, "257 is current directory")
  ELSE LET m == makePath(s, parameters) IN
       IF ~m.ok THEN m.s
       ELSE IF ~OpenDir(m.s.fs, m.path, in.lenient)
       THEN Reply(m.s, "550 Directory not found")
       ELSE Reply([m.s EXCEPT !.cwd = strlcpy(m.path, FTP_CWD_SIZE)],
                  "250 CWD command successful")

handlePasvCommand(s) ==
  LET s1 == IF s.data.connected THEN DataStop(s) ELSE s IN
  Reply([s1 EXCEPT !.dataPort = s.passivePort, !.dataConnType = FTP_DATA_PASSIVE,
                   !.ev.announced = <<s.passivePort \div 256, s.passivePort % 256>>],
        "227 Entering Passive Mode")

\* _dataIp and _dataPort are written field by field, so a short argument
\* leaves the fields parsed before the missing one overwritten.
handlePortCommand(s, parameters) ==
  LET s1 == IF s.data.connected THEN DataStop(s) ELSE s
      tok == strtok(parameters)
      n == Len(tok)
      ip == [i \in 1..4 |-> IF i <= n THEN atoi(tok[i]) % 256 ELSE s1.dataIp[i]]
  IN IF n < 4 THEN Reply([s1 EXCEPT !.dataIp = ip], "501 Invalid PORT format")
     ELSE IF n = 4 THEN Reply([s1 EXCEPT !.dataIp = ip], "501 Invalid PORT format")
     ELSE IF n = 5
     THEN Reply([s1 EXCEPT !.dataIp = ip, !.dataPort = (atoi(tok[5]) * 256) % 65536],
                "501 Invalid PORT format")
     ELSE Reply([s1 EXCEPT !.dataIp = ip,
                           !.dataPort = ((atoi(tok[5]) * 256) + atoi(tok[6])) % 65536,
                           !.dataConnType = FTP_DATA_ACTIVE],
                "200 PORT command successful")

\* The directory walk shared by LIST and MLSD once the path is resolved.
ListDirectory(s, path) ==
  IF ~IsDir(s.fs, path) THEN DataStop(Reply(s, "550 Directory not found"))
  ELSE DataStop(Reply(s, "226 matches total"))

handleListCommand(s, parameters, in) ==
  LET d == dataConnect(s, in) IN
  IF ~d.ok THEN Reply(d.s, "425 Can't open data connection")
  ELSE LET s1 == Reply(d.s, "150 Opening ASCII mode data connection for file list")
           m == makePath(s1, parameters)
       IN IF ~m.ok THEN DataStop(m.s) ELSE ListDirectory(m.s, m.path)

handleMlsdCommand(s, parameters, in) ==
  LET d == dataConnect(s, in) IN
  IF ~d.ok THEN Reply(d.s, "425 Can't open data connection")
  ELSE LET s1 == Reply(d.s, "150 Opening ASCII mode data connection for MLSD")
           paramToUse == IF Len(parameters) = 0 THEN <<".">> ELSE parameters
           m == makePath(s1, paramToUse)
       IN IF ~m.ok THEN DataStop(Reply(m.s, "550 Invalid path"))
          ELSE ListDirectory(m.s, m.path)

\* _file = LittleFS.open(path, "r")
OpenRead(s, path) ==
  Interrupt([s EXCEPT !.file =
     IF Exists(s.fs, path)
     THEN [open |-> TRUE, path |-> path, write |-> FALSE, pos |-> 0,
           size |-> IF s.fs[path].dir THEN 0 ELSE s.fs[path].size]
     ELSE NoFile])

\* _file = LittleFS.open(path, "w"): creates or truncates a regular file.
OpenWrite(s, path) ==
  Interrupt(
    IF IsFile(s.fs, path) \/ CanCreate(s.fs, path)
    THEN [s EXCEPT !.file = [open |-> TRUE, path |-> path, write |-> TRUE,
                             pos |-> 0, size |-> 0],
                   !.fs = FsPut(s.fs, path, [dir |-> FALSE, size |-> 0])]
    ELSE [s EXCEPT !.file = NoFile])

BeginTransfer(s, status) ==
  [s EXCEPT !.millisBeginTransfer = 0,
            !.bytesTransferred = 0,
            !.transferStatus = status,
            !.xfer = [kind |-> status, size |-> s.file.size, sent |-> 0, done |-> 0,
                      clean |-> TRUE]]

\* Mutation: the 425 branch returns without closing the file it opened.
handleRetrCommand_LeavesFileOpen(s, parameters, in) ==
  IF Len(parameters) = 0 THEN Reply(s, "501 No filename given")
  ELSE LET m == makePath(s, parameters) IN
       IF ~m.ok THEN m.s
       ELSE LET s1 == OpenRead(m.s, m.path) IN
            IF ~s1.file.open THEN Reply(s1, "550 File not found")
            ELSE LET d == dataConnect(s1, in) IN
                 IF ~d.ok
                 THEN Reply(d.s, "425 Can't open data connection")
                 ELSE BeginTransfer(Reply(d.s, "150 Opening data connection"),
                                    FTP_TRANSFER_RETR)

handleRetrCommand(s, parameters, in) ==
  IF Len(parameters) = 0 THEN Reply(s, "501 No filename given")
  ELSE LET m == makePath(s, parameters) IN
       IF ~m.ok THEN m.s
       ELSE LET s1 == OpenRead(m.s, m.path) IN
            IF ~s1.file.open THEN Reply(s1, "550 File not found")
            ELSE LET d == dataConnect(s1, in) IN
                 IF ~d.ok
                 THEN CloseFile(Interrupt(Reply(d.s, "425 Can't open data connection")))
                 ELSE BeginTransfer(Reply(d.s, "150 Opening data connection"),
                                    FTP_TRANSFER_RETR)

handleStorCommand(s, parameters, in) ==
  IF Len(parameters) = 0 THEN Reply(s, "501 No filename given")
  ELSE LET m == makePath(s, parameters) IN
       IF ~m.ok THEN m.s
       ELSE LET s1 == OpenWrite(m.s, m.path) IN
            IF ~s1.file.open THEN Reply(s1, "451 Can't create file")
            ELSE LET d == dataConnect(s1, in) IN
                 IF ~d.ok
                 THEN LET s2 == CloseFile(
                                  Interrupt(Reply(d.s, "425 Can't open data connection")))
                      IN [s2 EXCEPT !.fs = FsDel(s2.fs, m.path)]
                 ELSE BeginTransfer(Reply(d.s, "150 Ready to receive data"),
                                    FTP_TRANSFER_STOR)

handleDeleCommand(s, parameters) ==
  IF Len(parameters) = 0 THEN Reply(s, "501 No filename given")
  ELSE LET m == makePath(s, parameters) IN
       IF ~m.ok THEN m.s
       ELSE IF ~Exists(m.s.fs, m.path) THEN Reply(m.s, "550 File not found")
       ELSE IF IsFile(m.s.fs, m.path)
       THEN Reply([m.s EXCEPT !.fs = FsDel(m.s.fs, m.path)], "250 File deleted")
       ELSE Reply(m.s, "450 Could not delete file")

handleMkdCommand(s, parameters) ==
  IF Len(parameters) = 0 THEN Reply(s, "501 No directory name given")
  ELSE LET m == makePath(s, parameters) IN
       IF ~m.ok THEN m.s
       ELSE IF CanCreate(m.s.fs, m.path)
       THEN Reply([m.s EXCEPT !.fs = FsPut(m.s.fs, m.path, [dir |-> TRUE, size |-> 0])],
                  "257 created")
       ELSE Reply(m.s, "550 Can't create directory")

handleRmdCommand(s, parameters) ==
  IF Len(parameters) = 0 THEN Reply(s, "501 No directory name given")
  ELSE LET m == makePath(s, parameters) IN
       IF ~m.ok THEN m.s
       ELSE IF ~IsDir(m.s.fs, m.path)
       THEN Reply(m.s, "550 Not a directory or doesn't exist")
       ELSE IF Children(m.s.fs, m.path) # {} THEN Reply(m.s, "550 Directory not empty")
       ELSE IF m.path # Root
       THEN Reply([m.s EXCEPT !.fs = FsDel(m.s.fs, m.path)], "250 Directory removed")
       ELSE Reply(m.s, "550 Could not remove directory")

\* Mutation: the marker is set before the argument is resolved.
handleRnfrCommand_MarksBeforeResolving(s, parameters) ==
  IF Len(parameters) = 0 THEN Reply(s, "501 No filename given")
  ELSE LET m == makePath([s EXCEPT !.rnfrCmd = TRUE], parameters)
           s1 == [m.s EXCEPT !.renameFrom = m.path]
       IN IF ~m.ok THEN s1
          ELSE IF ~Exists(s1.fs, s1.renameFrom)
          THEN [Reply(s1, "550 File not found") EXCEPT !.rnfrCmd = s.rnfrCmd]
          ELSE Reply(s1, "350 RNFR accepted - ready for destination")

handleRnfrCommand(s, parameters) ==
  IF Len(parameters) = 0 THEN Reply(s, "501 No filename given")
  ELSE LET m == makePath(s, parameters)
           s1 == [m.s EXCEPT !.renameFrom = m.path]
       IN IF ~m.ok THEN s1
          ELSE IF ~Exists(s1.fs, s1.renameFrom) THEN Reply(s1, "550 File not found")
          ELSE Reply([s1 EXCEPT !.rnfrCmd = TRUE],
                     "350 RNFR accepted - ready for destination")

IsUnder(q, p) == q = p \/ (Len(q) > Len(p) /\ Take(q, Len(p) + 1) = p \o Root)

\* LittleFS.rename(from, to), the destination known not to exist.
FsRename(f, from, to) ==
  [q \in {IF IsUnder(r, from) THEN to \o Drop(r, Len(from)) ELSE r : r \in DOMAIN f} |->
     LET r == CHOOSE r \in DOMAIN f :
                q = (IF IsUnder(r, from) THEN to \o Drop(r, Len(from)) ELSE r)
     IN f[r]]

CanRename(f, from, to) ==
  /\ Exists(f, from) /\ from # Root
  /\ CanCreate(f, to)
  /\ ~IsUnder(to, from)

\* Mutation: the conflict branch returns without clearing the marker.
handleRntoCommand_MarkerKeptOnConflict(s, parameters) ==
  IF ~s.rnfrCmd THEN Reply(s, "503 RNFR required first")
  ELSE IF Len(parameters) = 0
  THEN [Reply(s, "501 No filename given") EXCEPT !.rnfrCmd = FALSE]
  ELSE LET m == makePath(s, parameters) IN
       IF ~m.ok THEN [m.s EXCEPT !.rnfrCmd = FALSE]
       ELSE IF Exists(m.s.fs, m.path)
       THEN Reply(m.s, "553 Destination already exists")
       ELSE IF CanRename(m.s.fs, m.s.renameFrom, m.path)
       THEN [Reply([m.s EXCEPT !.fs = FsRename(m.s.fs, m.s.renameFrom, m.path)],
                   "250 Rename successful") EXCEPT !.rnfrCmd = FALSE]
       ELSE [Reply(m.s, "553 Rename failed") EXCEPT !.rnfrCmd = FALSE]

handleRntoCommand(s, parameters) ==
  IF ~s.rnfrCmd THEN Reply(s, "503 RNFR required first")
  ELSE IF Len(parameters) = 0
  THEN [Reply(s, "501 No filename given") EXCEPT !.rnfrCmd = FALSE]
  ELSE LET m == makePath(s, parameters) IN
       IF ~m.ok THEN [m.s EXCEPT !.rnfrCmd = FALSE]
       ELSE IF Exists(m.s.fs, m.path)
       THEN [Reply(m.s, "553 Destination already exists") EXCEPT !.rnfrCmd = FALSE]
       ELSE IF CanRename(m.s.fs, m.s.renameFrom, m.path)
       THEN [Reply([m.s EXCEPT !.fs = FsRename(m.s.fs, m.s.renameFrom, m.path)],
                   "250 Rename successful") EXCEPT !.rnfrCmd = FALSE]
       ELSE [Reply(m.s, "553 Rename failed") EXCEPT !.rnfrCmd = FALSE]

handleSizeCommand(s, parameters) ==
  IF Len(parameters) = 0 THEN Reply(s, "501 No filename given")
  ELSE LET m == makePath(s, parameters) IN
       IF ~m.ok THEN m.s
       ELSE IF ~Exists(m.s.fs, m.path) THEN Reply(m.s, "550 File not found")
       ELSE Reply(m.s, "213 size")

handleTypeCommand(s, parameters) ==
  IF parameters = <<"A">> THEN Reply(s, "200 Type set to ASCII")
  ELSE IF parameters = <<"I">> THEN Reply(s, "200 Type set to binary")
  ELSE Reply(s, "504 Unsupported type")

\* ------------------------------------------------------------------------
\* Transfer engine
\* ------------------------------------------------------------------------
\* Mutation: the completion releases the data channel and not the file.
closeTransfer_LeavesFileOpen(s) ==
  LET duration == 0 - s.millisBeginTransfer
      s1 == IF duration > 0 /\ s.bytesTransferred > 0
            THEN Reply(s, "226 Transfer complete (rate)")
            ELSE Reply(s, "226 Transfer complete")
  IN [StopData(s1) EXCEPT !.transferStatus = FTP_TRANSFER_IDLE,
                          !.xfer.done = IF s.xfer.clean THEN @ + 1 ELSE @]

closeTransfer(s) ==
  LET duration == 0 - s.millisBeginTransfer
      s1 == IF duration > 0 /\ s.bytesTransferred > 0
            THEN Reply(s, "226 Transfer complete (rate)")
            ELSE Reply(s, "226 Transfer complete")
  IN [StopData(CloseFile(s1)) EXCEPT !.transferStatus = FTP_TRANSFER_IDLE,
                                     !.xfer.done = IF s.xfer.clean THEN @ + 1 ELSE @]

\* Mutation: a read shorter than the buffer is taken for the end of the file.
doRetrieve_ShortReadIsEof(s) ==
  LET bytesRead == IF s.file.open /\ ~s.file.write
                   THEN Min(FTP_BUF_SIZE, s.file.size - s.file.pos) ELSE 0
  IN IF bytesRead = FTP_BUF_SIZE
     THEN [s |-> [s EXCEPT !.file.pos = @ + bytesRead,
                           !.xfer.sent = IF s.data.connected /\ s.xfer.clean THEN @ + bytesRead ELSE @,
                           !.bytesTransferred = @ + bytesRead,
                           !.ev.chunk = bytesRead],
           more |-> TRUE]
     ELSE [s |-> closeTransfer(s), more |-> FALSE]

\* Returns [s, more].
doRetrieve(s) ==
  LET bytesRead == IF s.file.open /\ ~s.file.write
                   THEN Min(FTP_BUF_SIZE, s.file.size - s.file.pos) ELSE 0
  IN IF bytesRead > 0
     THEN [s |-> [s EXCEPT !.file.pos = @ + bytesRead,
                           !.xfer.sent = IF s.data.connected /\ s.xfer.clean THEN @ + bytesRead ELSE @,
                           !.bytesTransferred = @ + bytesRead,
                           !.ev.chunk = bytesRead],
           more |-> TRUE]
     ELSE [s |-> closeTransfer(s), more |-> FALSE]

\* _data.readBytes() is Stream::readBytes: it returns once the buffer is full
\* or no byte has arrived for ReadTimeout ms.  in.more is the number of bytes
\* the data peer delivers while the call waits.
doStore(s, in) ==
  IF ~s.data.connected THEN [s |-> closeTransfer(s), more |-> FALSE]
  ELSE LET arriving == IF s.xfer.sent + s.dataRx + in.more <= MaxUpload
                       THEN in.more ELSE 0
           available == s.dataRx + arriving
           bytesRead == Min(FTP_BUF_SIZE, available)
           s1 == IF bytesRead < FTP_BUF_SIZE THEN Elapse(s, ReadTimeout) ELSE s
           stored == s.file.open /\ s.file.write /\ IsFile(s.fs, s.file.path)
       IN IF bytesRead > 0
          THEN [s |-> [s1 EXCEPT
                         !.dataRx = available - bytesRead,
                         !.file.pos = IF stored THEN @ + bytesRead ELSE @,
                         !.fs = IF stored
                                THEN FsPut(s.fs, s.file.path,
                                           [dir |-> FALSE,
                                            size |-> s.fs[s.file.path].size + bytesRead])
                                ELSE s.fs,
                         !.xfer.sent = IF stored /\ s.xfer.clean THEN @ + bytesRead ELSE @,
                         !.bytesTransferred = @ + bytesRead,
                         !.ev.chunk = bytesRead],
                more |-> TRUE]
          ELSE [s |-> closeTransfer(s1), more |-> FALSE]

handleDataTransfers(s, in) ==
  IF s.transferStatus = FTP_TRANSFER_RETR
  THEN LET r == doRetrieve(s) IN
       IF ~r.more THEN [r.s EXCEPT !.transferStatus = FTP_TRANSFER_IDLE] ELSE r.s
  ELSE IF s.transferStatus = FTP_TRANSFER_STOR
  THEN LET r == doStore(s, in) IN
       IF ~r.more THEN [r.s EXCEPT !.transferStatus = FTP_TRANSFER_IDLE] ELSE r.s
  ELSE s

\* ------------------------------------------------------------------------
\* Command parser
\* ------------------------------------------------------------------------
\* The while loop of lines 1055-1056: s from its first character that is not
\* a space.
SkipSpaces(s) ==
  IF \A i \in 1..Len(s) : s[i] = SP THEN <<>>
  ELSE SubSeq(s, CHOOSE i \in 1..Len(s) : s[i] # SP /\ \A j \in 1..(i - 1) : s[j] = SP,
              Len(s))

\* Mutation: the verb buffer holds four characters and the terminator.
parseCommandLine_FourChars(line) ==
  LET spacePos == strchr(line, SP)
      word == IF spacePos = 0 THEN line ELSE Take(line, spacePos - 1)
      copied == strlcpy(word, COMMAND_SIZE - 1)
  IN [command |-> [i \in 1..Len(copied) |-> toupper(copied[i])],
      parameters |-> IF spacePos = 0 THEN <<>> ELSE SkipSpaces(Drop(line, spacePos))]

\* Returns [command, parameters] for the terminated line.
parseCommandLine(line) ==
  LET spacePos == strchr(line, SP)
      word == IF spacePos = 0 THEN line ELSE Take(line, spacePos - 1)
      copied == strlcpy(word, COMMAND_SIZE)
  IN [command |-> [i \in 1..Len(copied) |-> toupper(copied[i])],
      parameters |-> IF spacePos = 0 THEN <<>> ELSE SkipSpaces(Drop(line, spacePos))]

\* Returns [s, ret, command, parameters]; ret as the code returns it.
readCommand(s) ==
  IF s.rx = <<>>
  THEN [s |-> s, ret |-> -1, command |-> <<>>, parameters |-> <<>>]
  ELSE LET raw == Head(s.rx)
           c == IF raw = "\\" THEN "/" ELSE raw
           s1 == [s EXCEPT !.rx = Tail(s.rx), !.served = @ \cup {s.client.id}]
       IN IF c # CR /\ c # LF
          THEN [s |-> IF s1.cmdBufferIndex < FTP_CMD_SIZE
                      THEN [s1 EXCEPT !.cmdLine = Append(@, c),
                                      !.cmdBufferIndex = @ + 1]
                      ELSE s1,
                ret |-> -2, command |-> <<>>, parameters |-> <<>>]
          ELSE IF s1.cmdBufferIndex = 0
          THEN [s |-> s1, ret |-> 0, command |-> <<>>, parameters |-> <<>>]
          ELSE LET p == parseCommandLine(s1.cmdLine) IN
               [s |-> [s1 EXCEPT !.cmdLine = <<>>, !.cmdBufferIndex = 0],
                ret |-> 1, command |-> p.command, parameters |-> p.parameters]

\* ------------------------------------------------------------------------
\* Command dispatch
\* ------------------------------------------------------------------------
V_CDUP == <<"C","D","U","P">>
V_CWD == <<"C","W","D">>
V_PWD == <<"P","W","D">>
V_QUIT == <<"Q","U","I","T">>
V_PASV == <<"P","A","S","V">>
V_PORT == <<"P","O","R","T">>
V_TYPE == <<"T","Y","P","E">>
V_LIST == <<"L","I","S","T">>
V_MLSD == <<"M","L","S","D">>
V_RETR == <<"R","E","T","R">>
V_STOR == <<"S","T","O","R">>
V_DELE == <<"D","E","L","E">>
V_MKD == <<"M","K","D">>
V_RMD == <<"R","M","D">>
V_RNFR == <<"R","N","F","R">>
V_RNTO == <<"R","N","T","O">>
V_FEAT == <<"F","E","A","T">>
V_SIZE == <<"S","I","Z","E">>
V_SYST == <<"S","Y","S","T">>
V_NOOP == <<"N","O","O","P">>
V_ABOR == <<"A","B","O","R">>

\* Returns [s, ok].
processCommand(s, command, parameters, in) ==
  IF command = V_CDUP THEN [s |-> handleCdupCommand(s), ok |-> TRUE]
  ELSE IF command = V_CWD THEN [s |-> handleCwdCommand(s, parameters, in), ok |-> TRUE]
  ELSE IF command = V_PWD THEN [s |-> Reply(s, "257 is current directory"), ok |-> TRUE]
  ELSE IF command = V_QUIT THEN [s |-> disconnectClient(s), ok |-> FALSE]
  ELSE IF command = V_PASV THEN [s |-> handlePasvCommand(s), ok |-> TRUE]
  ELSE IF command = V_PORT THEN [s |-> handlePortCommand(s, parameters), ok |-> TRUE]
  ELSE IF command = V_TYPE THEN [s |-> handleTypeCommand(s, parameters), ok |-> TRUE]
  ELSE IF command = V_LIST THEN [s |-> handleListCommand(s, parameters, in), ok |-> TRUE]
  ELSE IF command = V_MLSD THEN [s |-> handleMlsdCommand(s, parameters, in), ok |-> TRUE]
  ELSE IF command = V_RETR THEN [s |-> handleRetrCommand(s, parameters, in), ok |-> TRUE]
  ELSE IF command = V_STOR THEN [s |-> handleStorCommand(s, parameters, in), ok |-> TRUE]
  ELSE IF command = V_DELE THEN [s |-> handleDeleCommand(s, parameters), ok |-> TRUE]
  ELSE IF command = V_MKD THEN [s |-> handleMkdCommand(s, parameters), ok |-> TRUE]
  ELSE IF command = V_RMD THEN [s |-> handleRmdCommand(s, parameters), ok |-> TRUE]
  ELSE IF command = V_RNFR THEN [s |-> handleRnfrCommand(s, parameters), ok |-> TRUE]
  ELSE IF command = V_RNTO THEN [s |-> handleRntoCommand(s, parameters), ok |-> TRUE]
  ELSE IF command = V_FEAT THEN [s |-> Reply(s, "211 End"), ok |-> TRUE]
  ELSE IF command = V_SIZE THEN [s |-> handleSizeCommand(s, parameters), ok |-> TRUE]
  ELSE IF command = V_SYST THEN [s |-> Reply(s, "215 UNIX Type: L8"), ok |-> TRUE]
  ELSE [s |-> Reply(s, "500 Unknown command"), ok |-> TRUE]

\* Observation: how far the connection that sent the line has got with
\* presenting the configured credentials.
Track(s, command, parameters) ==
  LET id == s.client.id
      stage ==
        IF command = V_USER /\ parameters = username THEN "user"
        ELSE IF command = V_PASS /\ parameters = password /\ s.authed[id] = "user"
        THEN "ok"
        ELSE IF s.authed[id] = "ok" THEN "ok" ELSE "none"
  IN [s EXCEPT !.authed[id] = stage,
               !.ev.line = TRUE, !.ev.verb = command, !.ev.arg = parameters,
               !.ev.by = id,
               !.ev.state = s.cmdStatus]

processCurrentState(s, command, parameters, in) ==
  IF s.cmdStatus = FTP_CMD_WAIT_USER
  THEN LET r == authenticateUser(s, command, parameters) IN
       [r.s EXCEPT !.cmdStatus = IF r.ok THEN FTP_CMD_WAIT_PASS ELSE FTP_CMD_IDLE]
  ELSE IF s.cmdStatus = FTP_CMD_WAIT_PASS
  THEN LET r == authenticatePassword(s, command, parameters) IN
       IF r.ok
       THEN [r.s EXCEPT !.cmdStatus = FTP_CMD_WAIT_COMMAND,
                        !.millisEndConnection = activeTimeout]
       ELSE [r.s EXCEPT !.cmdStatus = FTP_CMD_IDLE]
  ELSE IF s.cmdStatus = FTP_CMD_WAIT_COMMAND
  THEN LET next(r) == IF ~r.ok THEN [r.s EXCEPT !.cmdStatus = FTP_CMD_IDLE]
                       ELSE [r.s EXCEPT !.millisEndConnection = activeTimeout]
       IN next(processCommand(s, command, parameters, in))
  ELSE s

\* ------------------------------------------------------------------------
\* The poll entry point
\* ------------------------------------------------------------------------
\* Mutation: the pending connection is left waiting while a peer is connected.
AcceptClient_OnlyWhenFree(s) ==
  IF s.hasClient # 0 /\ ~s.client.connected
  THEN [s EXCEPT !.client = [id |-> s.hasClient, connected |-> TRUE],
                 !.rx = <<>>,
                 !.hasClient = 0,
                 !.ev.accepted = s.hasClient]
  ELSE s

\* Lines 108-115: a pending control connection replaces the current one.
AcceptClient(s) ==
  IF s.hasClient # 0
  THEN [(IF s.client.connected THEN StopClient(s) ELSE s)
          EXCEPT !.client = [id |-> s.hasClient, connected |-> TRUE],
                 !.rx = <<>>,
                 !.hasClient = 0,
                 !.ev.accepted = s.hasClient,
                 !.ev.replaced = IF s.client.connected THEN s.client.id ELSE 0]
  ELSE s

\* Lines 117-150: the switch on _cmdStatus.
StepState(s, in) ==
  IF s.cmdStatus = FTP_CMD_IDLE
  THEN [(IF s.client.connected THEN disconnectClient(s) ELSE s)
          EXCEPT !.cmdStatus = FTP_CMD_WAIT_CONNECTION]
  ELSE IF s.cmdStatus = FTP_CMD_WAIT_CONNECTION
  THEN [initVariables(abortTransfer(s)) EXCEPT !.cmdStatus = FTP_CMD_READY]
  ELSE IF s.cmdStatus = FTP_CMD_READY
  THEN IF s.client.connected
       THEN [clientConnected(s) EXCEPT !.millisEndConnection = LoginWindow,
                                       !.cmdStatus = FTP_CMD_WAIT_USER,
                                       !.greeted = @ \cup {s.client.id}]
       ELSE s
  ELSE LET r == readCommand(s) IN
       IF r.ret > 0
       THEN processCurrentState(Track(r.s, r.command, r.parameters),
                                r.command, r.parameters, in)
       ELSE r.s

\* Mutation: the check forgets the disconnected peer.
CheckTimeout_DeadlineOnly(s) ==
  IF s.cmdStatus > FTP_CMD_READY /\ s.millisEndConnection < 0
  THEN [Reply(s, "530 Timeout") EXCEPT !.millisDelay = TimeoutDelay,
                                       !.cmdStatus = FTP_CMD_IDLE,
                                       !.ev.timedOut = TRUE]
  ELSE s

\* Lines 155-162: disconnection or deadline.
CheckTimeout(s) ==
  IF s.cmdStatus > FTP_CMD_READY /\ (~s.client.connected \/ s.millisEndConnection < 0)
  THEN [Reply(s, "530 Timeout") EXCEPT !.millisDelay = TimeoutDelay,
                                       !.cmdStatus = FTP_CMD_IDLE,
                                       !.ev.timedOut = TRUE]
  ELSE s

handleFTP(s, in) ==
  IF s.millisDelay > 0 THEN [s EXCEPT !.ev = NoEvent]
  ELSE CheckTimeout(
         handleDataTransfers(
           StepState(AcceptClient([s EXCEPT !.ev = [NoEvent EXCEPT !.ran = TRUE]]), in),
           in))

\* ------------------------------------------------------------------------
\* Initial state: the object as the constructor leaves it
\* ------------------------------------------------------------------------
P_d == <<"/", "d">>
P_de == <<"/", "d", "/", "e">>
P_f == <<"/", "f">>
P_dg == <<"/", "d", "/", "g">>

InitFs ==
  [q \in {Root, P_d, P_de, P_f, P_dg} |->
     IF q = P_f THEN [dir |-> FALSE, size |-> SizeF]
     ELSE IF q = P_dg THEN [dir |-> FALSE, size |-> SizeG]
     ELSE [dir |-> TRUE, size |-> 0]]

\* _millisDelay is not initialised by the constructor and is read by the first
\* handleFTP call: any value, here elapsed or still pending.
InitExceptCwd ==
  /\ client = [id |-> 0, connected |-> FALSE]
  /\ data = [connected |-> FALSE]
  /\ cmdStatus = FTP_CMD_IDLE
  /\ currentAttempts = 0
  /\ dataIp = <<0, 0, 0, 0>>
  /\ dataPort = 0
  /\ dataConnType = FTP_DATA_PASSIVE
  /\ passivePort = FTP_DATA_PORT_PASV
  /\ file = NoFile
  /\ transferStatus = FTP_TRANSFER_IDLE
  /\ bytesTransferred = 0
  /\ millisBeginTransfer = 0
  /\ renameFrom = <<>>
  /\ rnfrCmd = FALSE
  /\ cmdLine = <<>>
  /\ cmdBufferIndex = 0
  /\ millisDelay \in 0..MaxInitDelay
  /\ millisEndConnection = 0
  /\ hasClient = 0
  /\ dataHasClient = FALSE
  /\ rx = <<>>
  /\ dataRx = 0
  /\ fs = InitFs
  /\ nextId = 1
  /\ ev = NoEvent
  /\ authed = [i \in 0..(MaxClients + 1) |-> "none"]
  /\ greeted = {}
  /\ served = {}
  /\ begun = FALSE
  /\ xfer = NoXfer

Init ==
  /\ InitExceptCwd
  /\ cwd = Root

\* ------------------------------------------------------------------------
\* Actions
\* ------------------------------------------------------------------------
\* begin(username, password), LittleFS mounting.
Begin ==
  /\ ~begun
  /\ Install([Cur EXCEPT !.ev = NoEvent, !.begun = TRUE, !.cmdStatus = FTP_CMD_WAIT_CONNECTION])

\* setPassivePort(port), called by the sketch before begin().
PassivePorts == {FTP_DATA_PORT_PASV, OtherPort}

SetPassivePort ==
  /\ ~begun
  /\ \E port \in PassivePorts : Install([Cur EXCEPT !.ev = NoEvent, !.passivePort = port])

\* What the data peer may deliver while one read of the data channel waits.
UploadSizes == {0, MaxUpload \div 2, MaxUpload}

\* The inputs one poll can read: the data-channel inputs are read only by a poll
\* that completes a command line or continues a STOR, the filesystem's answer
\* only by a poll that completes a command line.
LineEnds == rx # <<>> /\ Head(rx) \in {CR, LF} /\ cmdBufferIndex > 0
TickInputs ==
  {[arrive |-> a, connectOk |-> c, more |-> m, lenient |-> l] :
     a \in (IF LineEnds THEN BOOLEAN ELSE {FALSE}),
     c \in (IF LineEnds THEN BOOLEAN ELSE {FALSE}),
     l \in (IF LineEnds THEN BOOLEAN ELSE {FALSE}),
     m \in (IF LineEnds \/ transferStatus = FTP_TRANSFER_STOR THEN UploadSizes ELSE {0})}

\* One call of handleFTP() from loop().
Tick ==
  /\ begun
  /\ \E in \in TickInputs : Install(handleFTP(Cur, in))

\* A peer connects to the control port.
ClientConnect ==
  /\ begun
  /\ hasClient = 0
  /\ nextId <= MaxClients
  /\ Install([Cur EXCEPT !.ev = NoEvent, !.hasClient = nextId, !.nextId = nextId + 1])

\* The first peer connects to the control port (the only one, in the
\* specifications of a single session).
FirstClientConnect ==
  /\ nextId = 1
  /\ ClientConnect

\* The control peer sends one line.
ClientSend(line) ==
  /\ client.connected
  /\ rx = <<>>
  /\ Install([Cur EXCEPT !.ev = NoEvent, !.rx = line \o <<CR, LF>>])

\* The control peer closes its connection.
ClientClose ==
  /\ client.connected
  /\ Install([Cur EXCEPT !.ev = NoEvent, !.client.connected = FALSE, !.rx = <<>>])

\* A peer connects to the passive data port.
DataPeerConnect ==
  /\ begun
  /\ client.connected
  /\ ~dataHasClient
  /\ Install([Cur EXCEPT !.ev = NoEvent, !.dataHasClient = TRUE])

\* The data peer closes its connection.
DataPeerClose ==
  /\ data.connected
  /\ Install(Interrupt([Cur EXCEPT !.ev = NoEvent, !.data.connected = FALSE]))

\* Time passes, up to the next instant at which the code behaves differently.
AdvanceSet ==
  (IF millisDelay > 0 THEN {millisDelay} ELSE {})
  \cup (IF cmdStatus > FTP_CMD_READY /\ millisEndConnection >= 0
        THEN {millisEndConnection + 1} ELSE {})
  \cup (IF transferStatus # FTP_TRANSFER_IDLE /\ millisBeginTransfer = 0
        THEN {1} ELSE {})

Advance ==
  \E d \in AdvanceSet : Install(Elapse([Cur EXCEPT !.ev = NoEvent], d))

\* ------------------------------------------------------------------------
\* Input menus and specifications
\* ------------------------------------------------------------------------
Line(verb, arg) == IF arg = <<>> THEN verb ELSE verb \o <<SP>> \o arg

LoginLines ==
  {Line(V_USER, username), Line(V_USER, <<"b">>),
   Line(V_PASS, password), Line(V_PASS, <<"q">>),
   Line(V_PWD, <<>>), Line(V_QUIT, <<>>)}

\* The environment of the control connection.
ControlEnv ==
  \/ Begin
  \/ Tick
  \/ ClientConnect
  \/ ClientClose
  \/ Advance

\* The environment of the data connection.
DataEnv ==
  \/ DataPeerConnect
  \/ DataPeerClose

\* Spec: connections, login and session teardown.
Next ==
  \/ ControlEnv
  \/ \E l \in LoginLines : ClientSend(l)

Spec == Init /\ [][Next]_vars

\* SpecXfer: one logged-in session moving files over the data channel.
XferLines ==
  {Line(V_USER, username), Line(V_PASS, password),
   Line(V_RETR, <<"f">>), Line(V_RETR, <<"d", "/", "g">>),
   Line(V_STOR, <<"h">>), Line(V_ABOR, <<>>), Line(V_PASV, <<>>),
   Line(V_LIST, <<>>), Line(V_MLSD, <<"d">>), Line(V_RETR, <<"x">>)}

NextXfer ==
  \/ Begin
  \/ Tick
  \/ FirstClientConnect
  \/ ClientClose
  \/ Advance
  \/ DataEnv
  \/ \E l \in XferLines : ClientSend(l)

SpecXfer == Init /\ [][NextXfer]_vars

\* SpecCmd: one logged-in session sending commands that need no data channel.
V_SITE == <<"S","I","T","E">>

CmdLines ==
  {Line(V_USER, username), Line(V_PASS, password),
   Line(V_CWD, <<"d">>), Line(V_CWD, <<"e">>), Line(V_CDUP, <<>>),
   Line(V_RNFR, <<"/", "f">>), Line(V_RNTO, <<"/", "d">>), Line(V_RNTO, <<"h">>),
   Line(V_PASV, <<>>),
   Line(V_NOOP, <<>>), Line(V_SITE, <<>>)}

NextCmd ==
  \/ Begin
  \/ Tick
  \/ FirstClientConnect
  \/ ClientClose
  \/ Advance
  \/ \E l \in CmdLines : ClientSend(l)

SpecCmd == Init /\ [][NextCmd]_vars

\* SpecPort: one logged-in session configuring the data channel.
PortFull == <<"1", ",", "2", ",", "3", ",", "4", ",", "5", ",", "6">>
PortShort == <<"7", ",", "8", ",", "9">>
PortFive == <<"9", ",", "8", ",", "7", ",", "6", ",", "5">>

PortLines ==
  {Line(V_USER, username), Line(V_PASS, password),
   Line(V_PORT, PortFull), Line(V_PORT, PortShort), Line(V_PORT, PortFive),
   Line(V_PASV, <<>>)}

NextPort ==
  \/ SetPassivePort
  \/ Begin
  \/ Tick
  \/ FirstClientConnect
  \/ ClientClose
  \/ Advance
  \/ \E l \in PortLines : ClientSend(l)

SpecPort == Init /\ [][NextPort]_vars

\* SpecParse: one session sending lines of every shape the parser tells apart.
ParseLines ==
  {<<>>,
   Line(V_USER, username), Line(V_PASS, password),
   <<"u", "s", "e", "r", SP, SP, "a">>,
   <<"U", "S", "E", "R", "S", SP, "a">>,
   <<"r", "e", "t", "r", "i", "e", "v", "e">>,
   <<"s", "i", "z", "e", SP, "d", "\\", "g", SP, "x">>,
   <<SP, "x">>,
   <<"p", "w", "d", SP>>,
   <<"P", "W", "D">>}

NextParse ==
  \/ Begin
  \/ Tick
  \/ FirstClientConnect
  \/ Advance
  \/ \E l \in ParseLines : ClientSend(l)

SpecParse == Init /\ [][NextParse]_vars

\* SpecPath: makePath applied to an argument, in a session whose working
\* directory is one of PathCwds.
PathCwds ==
  {Root, <<"/", "x">>, <<"/", "a", "/", "b">>, <<"/", "d">>, <<"/", "d", "/", "e">>}

PathArgs ==
  {<<>>, Root, <<"c">>, <<"c", "/">>, <<"/", "c">>, <<"/", "c", "/">>,
   <<"/", "a", "/", "b">>, <<"a", "/", "b">>, <<"/", "/">>, <<"c", "/", "/">>,
   <<".">>, <<".", ".">>, <<".", ".", "/">>, <<"/", ".", ".">>,
   <<"x", "/", ".", ".">>, <<"x", "/", ".", ".", "/">>,
   <<".", ".", "/", ".", ".", "/", "e">>, <<".", ".", "x">>, <<"x", ".", ".">>,
   <<"x", ".", ".", "/", "y">>, <<".", ".", "/", "f">>, <<"e", "/", ".", ".", "/", "g">>,
   <<".", ".", ".">>, <<".", ".", ".", "/", "y">>, <<"/", ".", ".", "/", "f">>}

InitPath ==
  /\ InitExceptCwd
  /\ cwd \in PathCwds

MakePathCall ==
  \E param \in PathArgs : Install(makePath([Cur EXCEPT !.ev = NoEvent], param).s)

NextPath == MakePathCall

SpecPath == InitPath /\ [][NextPath]_vars

\* SpecFail: one logged-in session whose commands are refused, by the path
\* resolver, by the filesystem or for want of a data connection.
DotDotX == <<".", ".", "/", "x">>

FailLines ==
  {Line(V_USER, username), Line(V_PASS, password),
   Line(V_RNFR, <<"/", "f">>), Line(V_RNFR, <<"x">>), Line(V_DELE, <<"/", "f">>),
   Line(V_RNFR, DotDotX), Line(V_RNTO, DotDotX),
   Line(V_CWD, <<"d">>), Line(V_CWD, DotDotX),
   Line(V_RETR, DotDotX), Line(V_STOR, DotDotX), Line(V_MLSD, DotDotX),
   Line(V_LIST, <<>>)}

NextFail ==
  \/ Begin
  \/ Tick
  \/ FirstClientConnect
  \/ ClientClose
  \/ Advance
  \/ \E l \in FailLines : ClientSend(l)

SpecFail == Init /\ [][NextFail]_vars

\* SpecCwd: sessions moving the working directory about, with arguments of
\* every shape, and ending (QUIT) so that the next one starts afresh.
CwdLines ==
  {Line(V_USER, username), Line(V_PASS, password),
   Line(V_CWD, <<"d">>), Line(V_CWD, <<"d", "/", "/">>), Line(V_CWD, <<"e">>),
   Line(V_CWD, <<"x">>), Line(V_CWD, Root), Line(V_CWD, <<"/", "/", "d">>),
   Line(V_CDUP, <<>>), Line(V_QUIT, <<>>)}

NextCwd ==
  \/ Begin
  \/ Tick
  \/ FirstClientConnect
  \/ ClientClose
  \/ Advance
  \/ \E l \in CwdLines : ClientSend(l)

SpecCwd == Init /\ [][NextCwd]_vars

\* SpecLive: one session that ends by QUIT, by its deadline, by the loss of
\* its control connection or by a failed login, with or without a transfer in
\* progress; loop() keeps calling handleFTP() and time keeps passing.
LiveLines ==
  {Line(V_USER, username), Line(V_USER, <<"b">>), Line(V_PASS, password),
   Line(V_CWD, <<"d">>), Line(V_RETR, <<"f">>), Line(V_QUIT, <<>>)}

NextLive ==
  \/ Begin
  \/ Tick
  \/ FirstClientConnect
  \/ ClientClose
  \/ Advance
  \/ \E l \in LiveLines : ClientSend(l)

\* A poll would change the state: ENABLED <<Tick>>_vars, as a state predicate.
TickEnabled == begun /\ \E in \in TickInputs : handleFTP(Cur, in) # Cur

\* loop() never stops calling handleFTP(): weak fairness of Tick.
TickFair == []<>~TickEnabled \/ []<><<Tick>>_vars

SpecLive == Init /\ [][NextLive]_vars /\ TickFair /\ WF_vars(Advance)

\* SpecLong: one session sending a line one byte longer than the line buffer:
\* "DELE", spaces, "/fx", the "x" being byte FTP_CMD_SIZE + 1.
LongLine ==
  V_DELE \o [i \in 1..(FTP_CMD_SIZE - Len(V_DELE) - Len(P_f)) |-> SP] \o P_f \o <<"x">>

LongLines ==
  {Line(V_USER, username), Line(V_PASS, password), Line(V_PWD, <<>>), LongLine}

NextLong ==
  \/ Begin
  \/ Tick
  \/ FirstClientConnect
  \/ Advance
  \/ \E l \in LongLines : ClientSend(l)

SpecLong == Init /\ [][NextLong]_vars

\* SpecStor: one logged-in session storing to a new and to an existing file,
\* with or without a data peer.
StorLines ==
  {Line(V_USER, username), Line(V_PASS, password),
   Line(V_STOR, P_f), Line(V_STOR, <<"h">>)}

NextStor ==
  \/ Begin
  \/ Tick
  \/ FirstClientConnect
  \/ Advance
  \/ \E l \in StorLines : ClientSend(l)

SpecStor == Init /\ [][NextStor]_vars

\* ------------------------------------------------------------------------
\* Reading the observation of the last poll
\* ------------------------------------------------------------------------
Replied(e, msg) == \E i \in 1..Len(e.replies) : e.replies[i].msg = msg
WaitStates == {FTP_CMD_WAIT_USER, FTP_CMD_WAIT_PASS, FTP_CMD_WAIT_COMMAND}
\* The last poll completed a line and handed it to processCommand.
Dispatched(e) == e.line /\ e.state = FTP_CMD_WAIT_COMMAND
\* The last poll completed a line and handed it to the login handling.
LoginHandled(e) == e.line /\ e.state \in {FTP_CMD_WAIT_USER, FTP_CMD_WAIT_PASS}

\* ------------------------------------------------------------------------
\* C1: no command is dispatched (processCommand) for a control connection
\* unless that connection has itself sent the configured USER and then the
\* configured PASS.
\* ------------------------------------------------------------------------
C1_DispatchOnlyAfterLogin ==
  Dispatched(ev) => authed[ev.by] = "ok"

\* ------------------------------------------------------------------------
\* C2: a wrong USER or PASS that leaves the attempt counter below the maximum
\* (the ordinary 530 rejection, not the lockout reply) leaves the session in
\* its login state: the poll that handled it does not end in Idle.
\* ------------------------------------------------------------------------
C2_RejectionKeepsLoginState ==
  (/\ LoginHandled(ev)
   /\ ~ev.timedOut
   /\ Replied(ev, "530 User not found") \/ Replied(ev, "530 Invalid password"))
  => (currentAttempts < maxAttempts => cmdStatus \in {FTP_CMD_WAIT_USER, FTP_CMD_WAIT_PASS})

\* ------------------------------------------------------------------------
\* C3: a poll accepts a pending control connection only when no control
\* connection is active: no poll closes a connected peer for a newcomer.
\* ------------------------------------------------------------------------
C3_AcceptOnlyWhenNoneActive ==
  ev.replaced = 0

\* C3 as amended: a poll that is not held back by the response delay accepts
\* the pending control connection whether or not one is active; the active
\* connection, if any, is the one it closes and replaces.
C3_AcceptReplaces ==
  [][(Tick /\ millisDelay = 0 /\ hasClient # 0)
       => /\ hasClient' = 0
          /\ client'.id = hasClient
          /\ ev'.accepted = hasClient
          /\ ev'.replaced = (IF client.connected THEN client.id ELSE 0)]_vars

C3_Witness ==
  ev.replaced # 0 /\ ev.accepted = client.id /\ client.connected

\* ------------------------------------------------------------------------
\* C4: whenever the server is about to read the first byte of a control
\* connection, that connection has been sent the 220 greeting and the session
\* is at its defaults: working directory "/", attempt counter 0, no pending
\* rename, empty line buffer, no transfer in progress.
\* ------------------------------------------------------------------------
C4_ServedFromDefaults ==
  (cmdStatus \in WaitStates /\ client.connected /\ client.id \notin served)
  => /\ client.id \in greeted
     /\ cwd = Root
     /\ currentAttempts = 0
     /\ ~rnfrCmd
     /\ cmdBufferIndex = 0
     /\ transferStatus = FTP_TRANSFER_IDLE

\* ------------------------------------------------------------------------
\* C5: from every non-Idle state, a poll that finds the control connection
\* disconnected or the deadline elapsed ends in Idle with "530 Timeout"
\* written.
\* ------------------------------------------------------------------------
C5_AnyStateTimesOut ==
  [][(/\ Tick
      /\ cmdStatus # FTP_CMD_IDLE
      /\ ~client.connected \/ millisEndConnection < 0)
       => (cmdStatus' = FTP_CMD_IDLE /\ Replied(ev', "530 Timeout"))]_vars

\* C5 as amended: from AwaitingUser, AwaitingPassword or AwaitingCommand, a
\* poll that accepts no new connection and completes no command line, and
\* finds the control connection disconnected or the deadline elapsed, ends in
\* Idle; "530 Timeout" is its last reply, written while the connection is
\* still as it was (the teardown is left to the next poll).  No poll ends in
\* one of these three states with the connection gone or the deadline passed.
C5_TimeoutForcesIdle ==
  [][(Tick /\ millisDelay = 0)
       => /\ (/\ cmdStatus > FTP_CMD_READY
              /\ hasClient = 0
              /\ ~ev'.line
              /\ ~client.connected \/ millisEndConnection < 0)
             => /\ cmdStatus' = FTP_CMD_IDLE
                /\ ev'.timedOut
          /\ ev'.timedOut
             => /\ cmdStatus' = FTP_CMD_IDLE
                /\ ev'.replies[Len(ev'.replies)] =
                     [to |-> IF client'.connected THEN client'.id ELSE 0,
                      msg |-> "530 Timeout"]
                /\ millisDelay' = TimeoutDelay
          /\ cmdStatus' > FTP_CMD_READY
             => (client'.connected /\ millisEndConnection' >= 0)]_vars

C5_Witness ==
  /\ ev.timedOut
  /\ client.connected
  /\ cmdStatus = FTP_CMD_IDLE
  /\ ev.replies[Len(ev.replies)] = [to |-> client.id, msg |-> "530 Timeout"]

\* ------------------------------------------------------------------------
\* C6: a RETR of a file of size N whose file and data channel are left alone
\* (no abort, no data-channel loss, no command that takes either) moves at
\* most FTP_BUF_SIZE bytes per poll, keeps the byte counter equal to the bytes
\* written to the data channel, and once it has completed exactly N bytes
\* have been written, the counter is N, one completion reply (226) has been
\* given, the transfer status is idle and the file is closed.
\* ------------------------------------------------------------------------
C6_RetrMovesExactlyN ==
  /\ ev.chunk <= FTP_BUF_SIZE
  /\ xfer.done <= 1
  /\ (xfer.kind = FTP_TRANSFER_RETR /\ xfer.clean /\ transferStatus # FTP_TRANSFER_IDLE)
     => /\ transferStatus = FTP_TRANSFER_RETR
        /\ xfer.done = 0
        /\ xfer.sent = bytesTransferred
        /\ xfer.sent = file.pos
        /\ xfer.sent <= xfer.size
  /\ (xfer.kind = FTP_TRANSFER_RETR /\ xfer.clean /\ xfer.done = 1)
     => /\ xfer.sent = xfer.size
        /\ bytesTransferred = xfer.size
        /\ transferStatus = FTP_TRANSFER_IDLE
        /\ ~file.open

C6_Witness ==
  /\ xfer.kind = FTP_TRANSFER_RETR
  /\ xfer.clean
  /\ xfer.done = 1
  /\ xfer.size = SizeF
  /\ xfer.sent = SizeF
  /\ Replied(ev, "226 Transfer complete (rate)")

\* ------------------------------------------------------------------------
\* C7: while a transfer is in progress no RETR or STOR handling starts
\* another one (which would replace the open file, reset the byte counter and
\* set the direction anew).
\* ------------------------------------------------------------------------
C7_NoStartWhileTransferring ==
  [][(/\ Tick
      /\ transferStatus # FTP_TRANSFER_IDLE
      /\ Dispatched(ev')
      /\ ev'.verb \in {V_RETR, V_STOR})
       => ~(\/ Replied(ev', "150 Opening data connection")
            \/ Replied(ev', "150 Ready to receive data"))]_vars

\* ------------------------------------------------------------------------
\* C8: an ABOR dispatched while a transfer is in progress ends the transfer
\* on that poll: file and data channel closed, status idle, and the aborted
\* status (426) reported, with no throughput figure.
\* ------------------------------------------------------------------------
C8_AborEndsTransfer ==
  [][(/\ Tick
      /\ transferStatus # FTP_TRANSFER_IDLE
      /\ Dispatched(ev')
      /\ ev'.verb = V_ABOR)
       => /\ transferStatus' = FTP_TRANSFER_IDLE
          /\ ~file'.open
          /\ ~data'.connected
          /\ Replied(ev', "426 Transfer aborted")
          /\ ~Replied(ev', "226 Transfer complete (rate)")]_vars

\* ------------------------------------------------------------------------
\* C9: a dispatched command draws "500 Unknown command" exactly when its verb
\* is outside the supported set, and the poll that answers 500 leaves the
\* working directory, the rename marker, the data-channel mode, address and
\* port, the transfer status and the session state as they were.
\* ------------------------------------------------------------------------
SupportedVerbs ==
  {V_CWD, V_CDUP, V_PWD, V_QUIT, V_PASV, V_PORT, V_TYPE, V_LIST, V_MLSD,
   V_RETR, V_STOR, V_DELE, V_MKD, V_RMD, V_RNFR, V_RNTO, V_SIZE, V_SYST,
   V_FEAT, V_NOOP, V_ABOR}

C9_UnknownExactlyOutsideSupported ==
  [][(Tick /\ Dispatched(ev'))
       => /\ Replied(ev', "500 Unknown command") <=> ev'.verb \notin SupportedVerbs
          /\ (Replied(ev', "500 Unknown command") /\ ~ev'.timedOut)
             => UNCHANGED <<cwd, rnfrCmd, dataConnType, dataIp, dataPort,
                            transferStatus, cmdStatus>>]_vars

\* ------------------------------------------------------------------------
\* C10: a dispatched CDUP sets the working directory to its parent ("/d/e" to
\* "/d", "/d" to "/"), and replies "already at root" exactly when the working
\* directory was the root.
\* ------------------------------------------------------------------------
C10_CdupGoesToParent ==
  [][(Tick /\ Dispatched(ev') /\ ev'.verb = V_CDUP)
       => /\ cwd' = Parent(cwd)
          /\ Replied(ev', "250 Already at root directory") <=> cwd = Root]_vars

\* ------------------------------------------------------------------------
\* C11: a makePath call that succeeds leaves in fullPath the argument itself
\* when it starts with "/", otherwise the working directory followed by the
\* argument, with one "/" between them when the working directory does not end
\* in "/"; one trailing "/" is removed unless the result is "/".
\* ------------------------------------------------------------------------
Joined(param, dir) ==
  IF param # <<>> /\ param[1] = "/" THEN param
  ELSE IF dir[Len(dir)] = "/" THEN dir \o param
  ELSE dir \o <<"/">> \o param

StripSlash(q) == IF Len(q) > 1 /\ q[Len(q)] = "/" THEN Take(q, Len(q) - 1) ELSE q

C11_MakePathResolves ==
  (ev.path.called /\ ev.path.ok)
  => ev.path.out = StripSlash(Joined(ev.path.param, ev.path.cwd))

\* ------------------------------------------------------------------------
\* C12: a makePath call whose resolved path has a ".." component fails and
\* replies "550 Invalid path".
\* ------------------------------------------------------------------------
DotDot == <<".", ".">>

HasDotDotComponent(q) ==
  LET parts == Tokens(q, "/", <<>>) IN \E i \in 1..Len(parts) : parts[i] = DotDot

C12_RejectsParentToken ==
  (ev.path.called /\ HasDotDotComponent(ev.path.out))
  => (~ev.path.ok /\ Replied(ev, "550 Invalid path"))

\* ------------------------------------------------------------------------
\* C13: a dispatched RNTO always leaves the rename marker clear; without a
\* pending RNFR it replies 503 and the filesystem is unchanged; with one
\* pending and a destination that exists it replies "553 Destination already
\* exists" and the filesystem (source and destination) is unchanged.
\* ------------------------------------------------------------------------
C13_RntoRefusalsAndMarker ==
  [][(Tick /\ Dispatched(ev') /\ ev'.verb = V_RNTO)
       => /\ ~rnfrCmd'
          /\ ~rnfrCmd => (Replied(ev', "503 RNFR required first") /\ fs' = fs)
          /\ (rnfrCmd /\ ev'.path.ok /\ Exists(fs, ev'.path.out))
             => (Replied(ev', "553 Destination already exists") /\ fs' = fs)]_vars

C13_Witness ==
  /\ Dispatched(ev)
  /\ ev.verb = V_RNTO
  /\ Replied(ev, "553 Destination already exists")
  /\ renameFrom = P_f
  /\ IsFile(fs, P_f)
  /\ ~rnfrCmd

\* ------------------------------------------------------------------------
\* C14: the wait for an inbound data connection never exceeds the bound; a
\* RETR, STOR, LIST or MLSD whose wait ran to the bound replies 425 and no
\* 150, leaves the data channel closed, starts no transfer, and (RETR, STOR)
\* leaves the file it opened closed.
\* ------------------------------------------------------------------------
NeedsData == {V_RETR, V_STOR, V_LIST, V_MLSD}

C14_PassiveWaitBounded ==
  [][Tick
       => /\ ev'.waited <= DataAcceptWait
          /\ (Dispatched(ev') /\ ev'.verb \in NeedsData /\ ev'.waited = DataAcceptWait)
             => /\ dataConnType = FTP_DATA_PASSIVE
                /\ Replied(ev', "425 Can't open data connection")
                /\ \A i \in 1..Len(ev'.replies) :
                     ev'.replies[i].msg \notin {"150 Opening data connection",
                                                "150 Ready to receive data",
                                                "150 Opening ASCII mode data connection for file list",
                                                "150 Opening ASCII mode data connection for MLSD"}
                /\ ~data'.connected
                /\ transferStatus = FTP_TRANSFER_IDLE => transferStatus' = FTP_TRANSFER_IDLE
                /\ ev'.verb \in {V_RETR, V_STOR} => ~file'.open]_vars

C14_Witness ==
  /\ Dispatched(ev)
  /\ ev.verb = V_RETR
  /\ ev.waited = DataAcceptWait
  /\ Replied(ev, "425 Can't open data connection")
  /\ transferStatus = FTP_TRANSFER_IDLE
  /\ ~file.open

\* ------------------------------------------------------------------------
\* C15: a dispatched PORT whose argument has six comma-separated fields sets
\* active mode, the address to the first four fields and the port to
\* fifth * 256 + sixth, and replies 200; with a field missing it replies 501
\* and leaves mode, address and port as they were.
\* ------------------------------------------------------------------------
Fields(arg) == Tokens(arg, ",", <<>>)

C15_PortSetsOrLeaves ==
  [][(Tick /\ Dispatched(ev') /\ ev'.verb = V_PORT)
       => LET f == Fields(ev'.arg) IN
          IF Len(f) >= 6
          THEN /\ dataConnType' = FTP_DATA_ACTIVE
               /\ dataIp' = <<atoi(f[1]), atoi(f[2]), atoi(f[3]), atoi(f[4])>>
               /\ dataPort' = atoi(f[5]) * 256 + atoi(f[6])
               /\ Replied(ev', "200 PORT command successful")
          ELSE /\ Replied(ev', "501 Invalid PORT format")
               /\ UNCHANGED <<dataConnType, dataIp, dataPort>>]_vars

\* ------------------------------------------------------------------------
\* C16: the port a 227 reply announces (high byte * 256 + low byte) is the
\* port the passive data listener accepts on.
\* ------------------------------------------------------------------------
C16_AnnouncedPortIsListenerPort ==
  ev.announced # <<>> => ev.announced[1] * 256 + ev.announced[2] = dataServerPort

\* ------------------------------------------------------------------------
\* C17: a poll that reads a line terminator with a non-empty buffer yields the
\* verb = the upper-cased text before the first space, cut to VerbLen
\* characters, and the argument = the text after the first space without its
\* leading spaces (empty when there is no space); a terminator with an empty
\* buffer yields no command.  As stated, VerbLen is 4.
\* ------------------------------------------------------------------------
BeforeSpace(l) == IF strchr(l, SP) = 0 THEN l ELSE SubSeq(l, 1, strchr(l, SP) - 1)

AfterSpace(l) == IF strchr(l, SP) = 0 THEN <<>> ELSE SubSeq(l, strchr(l, SP) + 1, Len(l))

Upper(w) == [i \in 1..Len(w) |-> toupper(w[i])]

Reads == ev'.ran /\ cmdStatus \in WaitStates /\ hasClient = 0 /\ rx # <<>>

ParsedAs(verbLen) ==
  (Reads /\ Head(rx) \in {CR, LF})
  => IF cmdLine = <<>> THEN ~ev'.line
     ELSE /\ ev'.line
          /\ ev'.verb = Upper(SubSeq(BeforeSpace(cmdLine), 1,
                                      Min(verbLen, Len(BeforeSpace(cmdLine)))))
          /\ ev'.arg = SkipSpaces(AfterSpace(cmdLine))
          /\ cmdLine' = <<>>

C18_TransferOnlyWhileAwaitingCommand ==
  [][Tick
       => /\ cmdStatus' # FTP_CMD_WAIT_COMMAND => transferStatus' = FTP_TRANSFER_IDLE
          /\ cmdStatus # FTP_CMD_WAIT_COMMAND => ev'.chunk = 0]_vars

C20_FileAndDataReleasedTogether ==
  [][(Tick /\ transferStatus # FTP_TRANSFER_IDLE /\ file.open /\ data.connected)
       => /\ ~(~data'.connected /\ file'.open /\ transferStatus' # FTP_TRANSFER_IDLE)
          /\ ~(~file'.open /\ data'.connected)]_vars

\* ------------------------------------------------------------------------
\* C21: whenever a poll ends with the rename marker set, the stored source
\* exists in the filesystem, and either that poll was an accepted RNFR that
\* stored the path it resolved, or the marker was set before with the same
\* stored source.
\* ------------------------------------------------------------------------
RnfrAccepted(e) ==
  /\ Dispatched(e)
  /\ e.verb = V_RNFR
  /\ Replied(e, "350 RNFR accepted - ready for destination")

C21_MarkerHoldsVerifiedSource ==
  [][(Tick /\ rnfrCmd')
       => /\ Exists(fs', renameFrom')
          /\ \/ RnfrAccepted(ev') /\ renameFrom' = ev'.path.out
             \/ rnfrCmd /\ renameFrom' = renameFrom]_vars

\* ------------------------------------------------------------------------
\* C22: in every reachable state the working directory starts with "/" and
\* does not end with "/" unless it is "/" itself.
\* ------------------------------------------------------------------------
C22_CwdRootedNoTrailingSlash ==
  /\ cwd # <<>>
  /\ cwd[1] = "/"
  /\ cwd[Len(cwd)] = "/" => cwd = Root

\* ------------------------------------------------------------------------
\* C23: a dispatched command that fails in path resolution (makePath rejects
\* the argument) or in opening the data channel (425) leaves the working
\* directory and the rename marker as they were before the command.
\* ------------------------------------------------------------------------
FailedEarly(e) ==
  /\ Dispatched(e)
  /\ \/ e.path.called /\ ~e.path.ok
     \/ Replied(e, "425 Can't open data connection")

C23_FailureKeepsCwdAndMarker ==
  [][(Tick /\ FailedEarly(ev')) => (cwd' = cwd /\ rnfrCmd' = rnfrCmd)]_vars

\* C23 as amended: such a command leaves the working directory as it was, and
\* the rename marker as it was unless the command is RNTO, which leaves the
\* marker clear.
C23_FailureKeepsCwdAndMarkerButRnto ==
  [][(Tick /\ FailedEarly(ev'))
       => /\ cwd' = cwd
          /\ rnfrCmd' = (IF ev'.verb = V_RNTO THEN FALSE ELSE rnfrCmd)]_vars

C23_Witness ==
  /\ Dispatched(ev)
  /\ ev.verb = V_RNTO
  /\ ev.path.called
  /\ ~ev.path.ok
  /\ Replied(ev, "550 Invalid path")
  /\ renameFrom = P_f
  /\ cwd = P_d
  /\ ~rnfrCmd

\* ------------------------------------------------------------------------
\* C24: once the session is Idle, if handleFTP keeps being called and time
\* keeps passing, the machine reaches Ready with the session at its defaults
\* (working directory "/", attempt counter 0, rename marker clear, passive
\* mode), no transfer in progress, and the file and the data channel closed.
\* ------------------------------------------------------------------------
ReadyAtDefaults ==
  /\ cmdStatus = FTP_CMD_READY
  /\ cwd = Root
  /\ currentAttempts = 0
  /\ ~rnfrCmd
  /\ dataConnType = FTP_DATA_PASSIVE
  /\ transferStatus = FTP_TRANSFER_IDLE
  /\ ~file.open
  /\ ~data.connected

C24_IdleLeadsToReady ==
  (begun /\ cmdStatus = FTP_CMD_IDLE) ~> ReadyAtDefaults

C24_Witness ==
  /\ ReadyAtDefaults
  /\ 1 \in served
  /\ Replied(ev, "426 Transfer aborted")

\* ------------------------------------------------------------------------
\* C25: a poll that continues a STOR with the data channel connected and
\* reads no byte from it (and handles no command) leaves the transfer in
\* progress: status STOR, file open, no 226 reply.
\* ------------------------------------------------------------------------
C25_StorEndsOnlyOnDisconnect ==
  [][(/\ Tick
      /\ ev'.ran
      /\ cmdStatus = FTP_CMD_WAIT_COMMAND
      /\ ~ev'.line
      /\ transferStatus = FTP_TRANSFER_STOR
      /\ data.connected
      /\ ev'.chunk = 0)
       => /\ transferStatus' = FTP_TRANSFER_STOR
          /\ file'.open
          /\ ~Replied(ev', "226 Transfer complete")
          /\ ~Replied(ev', "226 Transfer complete (rate)")]_vars

\* ------------------------------------------------------------------------
\* C26: when a poll reads a line terminator, the index at which the line's
\* end is stored is inside the FTP_CMD_SIZE-byte buffer; and a line that has
\* filled the buffer by then is not dispatched but answered with an error.
\* ------------------------------------------------------------------------
C26_LineStaysInBuffer ==
  [][(Tick /\ Reads /\ Head(rx) \in {CR, LF})
       => /\ cmdBufferIndex < FTP_CMD_SIZE
          /\ Len(cmdLine) >= FTP_CMD_SIZE
             => /\ ~ev'.line
                /\ ev'.replies # <<>>]_vars

\* ------------------------------------------------------------------------
\* C27: a dispatched STOR that replies 425 leaves the filesystem as it was:
\* a file that existed at the target keeps its contents, no new file is left.
\* ------------------------------------------------------------------------
C27_FailedStorKeepsFilesystem ==
  [][(/\ Tick
      /\ Dispatched(ev')
      /\ ev'.verb = V_STOR
      /\ Replied(ev', "425 Can't open data connection"))
       => fs' = fs]_vars

====
